---------------------------- MODULE Spec2Model ----------------------------
(***************************************************************************)
(* A model of the KetonAI chat page: the conversation controller           *)
(* (handleSendMessage and the completion of its fetch), the landing        *)
(* placeholder typing effect, and the TypewriterText revealer.             *)
(*                                                                         *)
(* Strings are sequences of one-character strings.  A React state update   *)
(* made by a handler, the render it causes and the effects of that render  *)
(* are one step: React flushes the passive effects of a render before it   *)
(* processes any further update.                                           *)
(***************************************************************************)
EXTENDS Integers, Sequences, FiniteSets, TLC

VARIABLES
  mounted,          \* KetonAI is mounted
  messages,         \* useState<Message[]>
  inputValue,       \* useState<string>
  isTyping,         \* useState<boolean>
  showChat,         \* useState<boolean>
  logoVisible,      \* useState<boolean>
  placeholderText,  \* useState<string>
  placeholderIndex, \* useState<number>
  timer,            \* the 150 ms timeout of the placeholder effect: the
                    \* placeholderIndex its callback closed over, or NoTimer
  pause,            \* number of pending 3000 ms pause timeouts
  requests,         \* the fetches in flight, one record per suspended handler
  outcome,          \* the text each completed request put in its placeholder
  reveal,           \* the TypewriterText instance of each Assistant message
  nextId,           \* source of fresh ids (crypto.randomUUID)
  clock,            \* the wall clock read by new Date()
  ignored,          \* the handler that ran last was handleSendMessage and
                    \* it returned early
  tw,               \* a TypewriterText instance driven directly by its parent
  emitted,          \* the values tw has displayed since its effect last ran
  renders           \* the number of times the parent of tw changed fullText

vars == <<mounted, messages, inputValue, isTyping, showChat, logoVisible,
          placeholderText, placeholderIndex, timer, pause, requests, outcome,
          reveal, nextId, clock, ignored, tw, emitted, renders>>

chatVars == <<mounted, messages, inputValue, isTyping, showChat, logoVisible,
              placeholderText, placeholderIndex, timer, pause, requests,
              outcome, reveal, nextId, clock, ignored>>

---------------------------------------------------------------------------
(* Bounds *)

\* Number of submissions that create messages.
MaxSubmits == 2

\* Number of times the parent of the stand-alone revealer changes fullText.
MaxRenders == 3

\* Number of characters of the fallback message the model keeps.
MaxFallback == 1

\* Number of characters of the landing placeholder the model keeps.
MaxPlaceholder == 1

---------------------------------------------------------------------------
(* Strings *)

Whitespace == {" ", "\t"}

\* What the user can type into the input field.
Inputs == { <<>>, <<" ", "\t">>, <<"a">>, <<" ", "b", " ">> }

\* Bodies the backend can answer with.
Bodies == { <<>>, <<"h", "i">> }

\* Values of the fullText prop of the stand-alone revealer.
Texts == { <<>>, <<"a">>, <<"h", "i">>, <<"h", "e", "y">>, <<"a", "b", "c", "d">> }

Min(a, b) == IF a < b THEN a ELSE b

\* String.prototype.slice(0, n) for n >= 0.
Slice(s, n) == SubSeq(s, 1, Min(n, Len(s)))

RECURSIVE TrimStart(_)
TrimStart(s) ==
  IF s = <<>> THEN s
  ELSE IF Head(s) \in Whitespace THEN TrimStart(Tail(s)) ELSE s

RECURSIVE TrimEnd(_)
TrimEnd(s) ==
  IF s = <<>> THEN s
  ELSE IF s[Len(s)] \in Whitespace THEN TrimEnd(SubSeq(s, 1, Len(s) - 1)) ELSE s

\* String.prototype.trim
Trim(s) == TrimEnd(TrimStart(s))

\* "How can we help you today?"
FullPlaceholderText ==
  << "H", "o", "w", " ", "c", "a", "n", " ", "w", "e", " ", "h", "e", "l", "p",
     " ", "y", "o", "u", " ", "t", "o", "d", "a", "y", "?" >>

\* The placeholder string, cut to the first MaxPlaceholder characters.
fullPlaceholder == Slice(FullPlaceholderText, MaxPlaceholder)

\* "Oops! Something went wrong connecting to the server."
FullFallbackText ==
  << "O", "o", "p", "s", "!", " ", "S", "o", "m", "e", "t", "h", "i", "n", "g",
     " ", "w", "e", "n", "t", " ", "w", "r", "o", "n", "g", " ", "c", "o", "n",
     "n", "e", "c", "t", "i", "n", "g", " ", "t", "o", " ", "t", "h", "e", " ",
     "s", "e", "r", "v", "e", "r", "." >>

\* The fallback message, cut to the first MaxFallback characters.
FallbackText == Slice(FullFallbackText, MaxFallback)

NoTimer == -1

---------------------------------------------------------------------------
(* TypewriterText *)

\* The state of one TypewriterText instance:
\*   displayed  the useState value it renders
\*   fullText   the prop of its last render (the effect's dependency)
\*   timers     the active setInterval timers, each with the fullText and
\*              the idx its callback closed over
\*   cleanup    the timer the last effect's cleanup function clears (0: the
\*              effect returned no cleanup function)
\*   next       the handle the next setInterval returns
\*   alive      the instance is mounted
\*   cancelled  the number of running intervals a cleanup function cleared
TwInitial(text) ==
  [displayed |-> <<>>, fullText |-> text, timers |-> {}, cleanup |-> 0,
   next |-> 1, alive |-> TRUE, cancelled |-> 0]

\* The effect's body: reset the display, and start an interval unless
\* fullText is empty.
TwEffect(r) ==
  IF r.fullText = <<>>
  THEN [r EXCEPT !.displayed = <<>>, !.cleanup = 0]
  ELSE [r EXCEPT !.displayed = <<>>,
                 !.timers = @ \cup {[id |-> r.next, text |-> r.fullText, idx |-> 0]},
                 !.cleanup = r.next,
                 !.next = @ + 1]

\* A faulty variant of the cleanup function: it leaves the interval running.
TwCleanupLeak(r) == [r EXCEPT !.cleanup = 0]

\* The cleanup function returned by the effect: clearInterval(interval).
TwCleanup(r) ==
  [r EXCEPT !.timers = {t \in @ : t.id # r.cleanup},
            !.cleanup = 0,
            !.cancelled = @ + Cardinality({t \in r.timers : t.id = r.cleanup})]

\* A faulty variant of the dependencies: no dependency array, so the effect
\* runs after every render.
TwDepsAlways(old, new) == TRUE

\* The dependency array [fullText]: the effect runs again when it changed.
TwDepsChanged(old, new) == old # new

\* A render with prop text, and the effect pass after it.
TwRender(r, text) ==
  IF TwDepsChanged(r.fullText, text)
  THEN TwEffect([TwCleanup(r) EXCEPT !.fullText = text])
  ELSE r

\* The first render and the effect pass after it.
TwMount(text) == TwEffect(TwInitial(text))

\* A faulty variant of the stop test: off by one.
TwShownAllLate(idx, text) == idx > Len(text)

\* The interval's stop test.
TwShownAll(idx, text) == idx >= Len(text)

\* One run of the interval callback of timer t.
TwTick(r, t) ==
  LET idx == t.idx + 1 IN
  [r EXCEPT !.displayed = Slice(t.text, idx),
            !.timers = IF TwShownAll(idx, t.text)
                       THEN @ \ {t}
                       ELSE (@ \ {t}) \cup {[t EXCEPT !.idx = idx]}]

\* Unmount: the cleanup function runs.
TwUnmount(r) == [TwCleanup(r) EXCEPT !.alive = FALSE]

---------------------------------------------------------------------------
(* Messages *)

\* A faulty variant of the User message: the text is trimmed.
UserMessageTrimmed(id, text, now) ==
  [id |-> id, text |-> Trim(text), isUser |-> TRUE, timestamp |-> now]

\* The User message built by handleSendMessage.
UserMessage(id, text, now) ==
  [id |-> id, text |-> text, isUser |-> TRUE, timestamp |-> now]

\* The placeholder Assistant message built by handleSendMessage.
PlaceholderMessage(id, now) ==
  [id |-> id, text |-> <<>>, isUser |-> FALSE, timestamp |-> now]

\* crypto.randomUUID(): the n-th identifier drawn.
RandomUUID(n) == n

\* A faulty variant of the guard: !inputValue
IsEmpty(s) == s = <<>>

\* The guard of handleSendMessage: !inputValue.trim()
IsBlank(s) == Trim(s) = <<>>

\* A faulty variant of the replacement: it matches every Assistant message.
ReplaceTextOfAssistants(prev, placeholderId, text) ==
  [i \in 1..Len(prev) |->
     IF ~prev[i].isUser THEN [prev[i] EXCEPT !.text = text] ELSE prev[i]]

\* prev.map(msg => msg.id === placeholderId ? {...msg, text} : msg)
ReplaceText(prev, placeholderId, text) ==
  [i \in 1..Len(prev) |->
     IF prev[i].id = placeholderId THEN [prev[i] EXCEPT !.text = text]
     ELSE prev[i]]

AssistantIds(msgs) == {msgs[i].id : i \in {j \in 1..Len(msgs) : ~msgs[j].isUser}}

TextOf(msgs, id) ==
  LET i == CHOOSE j \in 1..Len(msgs) : msgs[j].id = id IN msgs[i].text

\* The render of the message list: one TypewriterText per Assistant message,
\* keyed by the message id, with fullText = message.text.
RenderMessages(msgs, show) ==
  IF ~show THEN reveal
  ELSE [id \in AssistantIds(msgs) |->
          IF id \in DOMAIN reveal
          THEN TwRender(reveal[id], TextOf(msgs, id))
          ELSE TwMount(TextOf(msgs, id))]

\* The placeholder effect after a render in which placeholderIndex or
\* showChat changed: the old timeout is cleared, and a new one is set while
\* the chat is not shown.
PlaceholderEffect(show, index) == IF ~show THEN index ELSE NoTimer

\* The timeout of the placeholder effect after a render: the effect runs
\* again only when one of its dependencies [placeholderIndex, showChat]
\* changed.
PlaceholderRender(show, index) ==
  IF <<index, show>> # <<placeholderIndex, showChat>>
  THEN PlaceholderEffect(show, index)
  ELSE timer

---------------------------------------------------------------------------
(* The chat page *)

twVars == <<tw, emitted, renders>>

ChatInit ==
  /\ mounted = TRUE
  /\ messages = <<>>
  /\ inputValue = <<>>
  /\ isTyping = FALSE
  /\ showChat = FALSE
  /\ logoVisible = TRUE
  /\ placeholderText = <<>>
  /\ placeholderIndex = 0
  /\ timer = PlaceholderEffect(FALSE, 0)
  /\ pause = 0
  /\ requests = {}
  /\ outcome = <<>>
  /\ reveal = <<>>
  /\ nextId = 1
  /\ clock = 0
  /\ ignored = FALSE

Init ==
  /\ ChatInit
  /\ tw = TwInitial(<<>>)
  /\ emitted = <<>>
  /\ renders = 0

\* onChange of the input: setInputValue(e.target.value)
HandleChange ==
  /\ mounted
  /\ \E v \in Inputs : inputValue' = v
  /\ reveal' = RenderMessages(messages, showChat)
  /\ UNCHANGED <<mounted, messages, isTyping, showChat, logoVisible,
                 placeholderText, placeholderIndex, timer, pause, requests,
                 outcome, nextId, clock>>
  /\ ignored' = FALSE
  /\ UNCHANGED twVars

\* handleSendMessage up to its first await (Enter in the input, or the send
\* button).
HandleSendMessage ==
  /\ mounted
  /\ UNCHANGED twVars
  /\ IF IsBlank(inputValue)
     THEN /\ ignored' = TRUE
          /\ UNCHANGED <<mounted, messages, inputValue, isTyping, showChat,
                         logoVisible, placeholderText, placeholderIndex, timer,
                         pause, requests, outcome, reveal, nextId, clock>>
     ELSE /\ nextId < 2 * MaxSubmits
          /\ ignored' = FALSE
          /\ LET userMessage == UserMessage(RandomUUID(nextId), inputValue, clock)
                 placeholderId == RandomUUID(nextId + 1)
             IN /\ messages' = Append(Append(messages, userMessage),
                                      PlaceholderMessage(placeholderId, clock + 1))
                /\ requests' = requests \cup
                     {[id |-> placeholderId, message |-> userMessage.text,
                       stage |-> "fetch", ok |-> TRUE]}
          /\ clock' = clock + 2
          /\ inputValue' = <<>>
          /\ showChat' = TRUE
          /\ logoVisible' = FALSE
          /\ isTyping' = TRUE
          /\ nextId' = nextId + 2
          /\ timer' = PlaceholderRender(TRUE, placeholderIndex)
          /\ reveal' = RenderMessages(messages', TRUE)
          /\ UNCHANGED <<mounted, placeholderText, placeholderIndex, pause, outcome>>

\* handleInputFocus
HandleInputFocus ==
  /\ mounted
  /\ IF ~showChat
     THEN /\ showChat' = TRUE
          /\ logoVisible' = FALSE
     ELSE UNCHANGED <<showChat, logoVisible>>
  /\ timer' = PlaceholderRender(showChat', placeholderIndex)
  /\ reveal' = RenderMessages(messages, showChat')
  /\ UNCHANGED <<mounted, messages, inputValue, isTyping, placeholderText,
                 placeholderIndex, pause, requests, outcome, nextId, clock>>
  /\ ignored' = FALSE
  /\ UNCHANGED twVars

\* The end of a handler suspended in request r: the try block's setMessages
\* with text (or the catch block's, with the fallback), then the finally
\* block's setIsTyping(false).
Settle(r, text) ==
  /\ messages' = ReplaceText(messages, r.id, text)
  /\ isTyping' = FALSE
  /\ requests' = requests \ {r}
  /\ outcome' = [x \in DOMAIN outcome \cup {r.id} |->
                   IF x = r.id THEN text ELSE outcome[x]]
  /\ reveal' = IF mounted THEN RenderMessages(messages', showChat) ELSE reveal
  /\ UNCHANGED <<mounted, inputValue, showChat, logoVisible, placeholderText,
                 placeholderIndex, timer, pause, nextId, clock>>
  /\ ignored' = FALSE
  /\ UNCHANGED twVars

\* await fetch(...) resolves with a response, of a 2xx status (ok) or not.
FetchResolve ==
  \E r \in requests :
    /\ r.stage = "fetch"
    /\ \E ok \in BOOLEAN :
         requests' = (requests \ {r}) \cup {[r EXCEPT !.stage = "text", !.ok = ok]}
    /\ UNCHANGED <<mounted, messages, inputValue, isTyping, showChat, logoVisible,
                   placeholderText, placeholderIndex, timer, pause, outcome,
                   reveal, nextId, clock>>
    /\ ignored' = FALSE
    /\ UNCHANGED twVars

\* await fetch(...) rejects: the catch block runs.
FetchReject ==
  \E r \in requests :
    /\ r.stage = "fetch"
    /\ Settle(r, FallbackText)

\* await response.text() resolves with the body: the rest of the try block
\* runs.
TextResolve ==
  \E r \in requests, fullText \in Bodies :
    /\ r.stage = "text"
    /\ Settle(r, fullText)

\* await response.text() rejects: the catch block runs.
TextReject ==
  \E r \in requests :
    /\ r.stage = "text"
    /\ Settle(r, FallbackText)

\* The 150 ms timeout of the placeholder effect fires.
PlaceholderTimer ==
  /\ timer # NoTimer
  /\ IF timer < Len(fullPlaceholder)
     THEN /\ placeholderText' = Slice(fullPlaceholder, timer + 1)
          /\ placeholderIndex' = placeholderIndex + 1
          /\ timer' = PlaceholderEffect(showChat, placeholderIndex')
          /\ pause' = pause
     ELSE /\ pause' = pause + 1
          /\ timer' = NoTimer
          /\ UNCHANGED <<placeholderText, placeholderIndex>>
  /\ reveal' = RenderMessages(messages, showChat)
  /\ UNCHANGED <<mounted, messages, inputValue, isTyping, showChat, logoVisible,
                 requests, outcome, nextId, clock>>
  /\ ignored' = FALSE
  /\ UNCHANGED twVars

\* The 3000 ms pause timeout fires.  The function its creator returns is
\* the return value of a setTimeout callback, which nothing calls.
PauseTimer ==
  /\ pause > 0
  /\ pause' = pause - 1
  /\ placeholderText' = <<>>
  /\ placeholderIndex' = 0
  /\ timer' = IF mounted THEN PlaceholderRender(showChat, 0) ELSE timer
  /\ reveal' = IF mounted THEN RenderMessages(messages, showChat) ELSE reveal
  /\ UNCHANGED <<mounted, messages, inputValue, isTyping, showChat, logoVisible,
                 requests, outcome, nextId, clock>>
  /\ ignored' = FALSE
  /\ UNCHANGED twVars

\* The interval of one message's TypewriterText fires.
RevealTick ==
  \E id \in DOMAIN reveal :
    \E t \in reveal[id].timers :
      /\ reveal' = [reveal EXCEPT ![id] = TwTick(@, t)]
      /\ UNCHANGED <<mounted, messages, inputValue, isTyping, showChat,
                     logoVisible, placeholderText, placeholderIndex, timer,
                     pause, requests, outcome, nextId, clock>>
      /\ ignored' = FALSE
      /\ UNCHANGED twVars

\* The page is torn down: the cleanup functions of the effects run.
Unmount ==
  /\ mounted
  /\ mounted' = FALSE
  /\ timer' = NoTimer
  /\ reveal' = [id \in DOMAIN reveal |-> TwUnmount(reveal[id])]
  /\ UNCHANGED <<messages, inputValue, isTyping, showChat, logoVisible,
                 placeholderText, placeholderIndex, pause, requests, outcome,
                 nextId, clock>>
  /\ ignored' = FALSE
  /\ UNCHANGED twVars

Next ==
  \/ HandleChange
  \/ HandleSendMessage
  \/ HandleInputFocus
  \/ FetchResolve
  \/ FetchReject
  \/ TextResolve
  \/ TextReject
  \/ PlaceholderTimer
  \/ PauseTimer
  \/ RevealTick
  \/ Unmount

Spec == Init /\ [][Next]_vars

---------------------------------------------------------------------------
(* TypewriterText on its own: a parent mounts it with some fullText, renders *)
(* it again with any fullText, and unmounts it.                             *)

TwInit ==
  /\ ChatInit
  /\ \E text \in Texts : tw = TwMount(text)
  /\ emitted = << <<>> >>
  /\ renders = 0

\* The parent renders the revealer with fullText = text.
TwSetText ==
  /\ tw.alive
  /\ renders < MaxRenders
  /\ \E text \in Texts : tw' = TwRender(tw, text)
  /\ emitted' = IF tw' = tw THEN emitted ELSE << tw'.displayed >>
  /\ renders' = renders + 1
  /\ UNCHANGED chatVars

\* The revealer's interval fires.
TwInterval ==
  /\ \E t \in tw.timers : tw' = TwTick(tw, t)
  /\ emitted' = Append(emitted, tw'.displayed)
  /\ UNCHANGED <<renders, chatVars>>

\* The parent unmounts the revealer.
TwTeardown ==
  /\ tw.alive
  /\ tw' = TwUnmount(tw)
  /\ UNCHANGED <<emitted, renders, chatVars>>

TwNext ==
  \/ TwSetText
  \/ TwInterval
  \/ TwTeardown

TwSpec == TwInit /\ [][TwNext]_vars

---------------------------------------------------------------------------
(* Properties *)

AllWhitespace(s) == \A i \in 1..Len(s) : s[i] \in Whitespace

IsPrefix(p, s) == Len(p) <= Len(s) /\ p = SubSeq(s, 1, Len(p))

Ids(msgs) == {msgs[i].id : i \in 1..Len(msgs)}

\* C1: a call of handleSendMessage with an input that is not all whitespace
\* appends exactly two messages to the end of the sequence: a User message
\* with the input verbatim, then an Assistant placeholder with empty text
\* and an id no message had so far; it sets isTyping, clears the input field
\* and issues exactly one request, which carries that text.
C1_SubmitAppendsTwo ==
  [][ (HandleSendMessage /\ ~AllWhitespace(inputValue)) =>
        LET n == Len(messages) IN
        /\ Len(messages') = n + 2
        /\ SubSeq(messages', 1, n) = messages
        /\ messages'[n + 1].isUser
        /\ messages'[n + 1].text = inputValue
        /\ ~messages'[n + 2].isUser
        /\ messages'[n + 2].text = <<>>
        /\ messages'[n + 2].id \notin Ids(messages) \cup {messages'[n + 1].id}
        /\ messages'[n + 1].id \notin Ids(messages)
        /\ isTyping'
        /\ inputValue' = <<>>
        /\ requests \subseteq requests'
        /\ Cardinality(requests' \ requests) = 1
        /\ \A r \in requests' \ requests :
             /\ r.message = inputValue
             /\ r.id = messages'[n + 2].id
             /\ r.stage = "fetch" ]_vars

\* C1 witness: a second submission, of an input with surrounding
\* whitespace, was made while the first request was still outstanding.
C1_Witness ==
  /\ ~ignored
  /\ Len(messages) = 4
  /\ messages[3].text = <<" ", "b", " ">>
  /\ Cardinality(requests) = 2
  /\ inputValue = <<>>

\* The request r of this state completes in this step.
Completes(r) ==
  /\ r \in requests
  /\ \A q \in requests' : q.id # r.id

\* C2: a completion changes only the text of the one placeholder whose id
\* its submission reserved; no step changes the length of the sequence other
\* than by appending, the order, or the id, origin and timestamp of a
\* message; and the text of a message changes only when the request holding
\* its id completes.  So each Assistant message holds the result of its own
\* request, right after the User message of its own submission.
C2_CompletionTouchesOwnPlaceholder ==
  /\ [][ /\ Len(messages') >= Len(messages)
         /\ \A i \in 1..Len(messages) :
              /\ messages'[i].id = messages[i].id
              /\ messages'[i].isUser = messages[i].isUser
              /\ messages'[i].timestamp = messages[i].timestamp
              /\ messages'[i].text # messages[i].text =>
                   /\ ~messages[i].isUser
                   /\ \E r \in requests : Completes(r) /\ r.id = messages[i].id
         /\ \A r \in requests : Completes(r) =>
              Cardinality({i \in 1..Len(messages) : messages[i].id = r.id}) = 1 ]_vars
  /\ [](/\ Len(messages) % 2 = 0
        /\ \A i \in 1..Len(messages) :
             IF i % 2 = 1
             THEN messages[i].isUser
             ELSE /\ ~messages[i].isUser
                  /\ messages[i].text =
                       IF messages[i].id \in DOMAIN outcome
                       THEN outcome[messages[i].id]
                       ELSE <<>>
                  /\ \A r \in requests :
                       r.id = messages[i].id => r.message = messages[i - 1].text)

\* C2 witness: of two submissions "a" then " b ", the second has completed
\* with a non-empty text while the first is still outstanding.
C2_Witness ==
  /\ Len(messages) = 4
  /\ messages[1].text = <<"a">>
  /\ messages[3].text = <<" ", "b", " ">>
  /\ messages[4].id \in DOMAIN outcome
  /\ messages[4].text = <<"h", "i">>
  /\ messages[2].id \notin DOMAIN outcome
  /\ \E r \in requests : r.id = messages[2].id

\* C3: whenever a submitted request has not yet completed, isTyping is true.
C3_TypingWhileOutstanding == (mounted /\ requests # {}) => isTyping

\* C4: every request failure (fetch rejects, the response is not 2xx, or
\* reading the body throws) ends with the fallback string in the placeholder
\* of that submission, isTyping false and no new request.
C4_FailureGivesFallback ==
  [][ \A r \in requests :
        (Completes(r) /\ (r.stage = "fetch" \/ ~r.ok \/ TextReject)) =>
          /\ TextOf(messages', r.id) = FallbackText
          /\ ~isTyping'
          /\ requests' = requests \ {r} ]_vars

\* C5: a call of handleSendMessage with an empty or all-whitespace input
\* appends no message, issues no request and leaves isTyping and the message
\* sequence unchanged.
C5_BlankSubmitIsNoOp ==
  [][ (HandleSendMessage /\ AllWhitespace(inputValue)) =>
        UNCHANGED <<messages, requests, isTyping, outcome, nextId, reveal>> ]_vars

\* C5 witness: handleSendMessage returned early on a whitespace-only input
\* while a request was outstanding.
C5_Witness ==
  /\ ignored
  /\ inputValue = <<" ", "\t">>
  /\ requests # {}
  /\ Len(messages) = 2

\* C6: while the revealer is mounted with a fullText of length N, the
\* values it has displayed since that fullText arrived are exactly the
\* prefixes of lengths 0, 1, ..., k in that order, with k <= N; an interval
\* is running exactly while k < N, so none is started for the empty string
\* and it is stopped on reaching N; and the displayed value changes only by
\* one tick of a running interval, which extends it by one character.
C6_RevealPrefixesThenStops ==
  /\ [](tw.alive =>
          LET N == Len(tw.fullText)
              k == Len(tw.displayed)
          IN /\ k <= N
             /\ emitted = [i \in 1..(k + 1) |-> SubSeq(tw.fullText, 1, i - 1)]
             /\ tw.displayed = SubSeq(tw.fullText, 1, k)
             /\ (tw.timers = {}) <=> (k = N))
  /\ [][ tw'.fullText = tw.fullText =>
           \/ tw'.displayed = tw.displayed
           \/ /\ tw.timers # {}
              /\ Len(tw'.displayed) = Len(tw.displayed) + 1 ]_vars

\* C6 witness: a four-character fullText has been revealed in full, through
\* five displayed values, and no interval is left.
C6_Witness ==
  /\ tw.alive
  /\ tw.fullText = <<"a", "b", "c", "d">>
  /\ tw.displayed = tw.fullText
  /\ Len(emitted) = 5
  /\ tw.timers = {}

\* C7: at most one interval is active for a revealer, it is the one the
\* current effect started for the current fullText, and none is active after
\* the unmount; an unmounted revealer's displayed value never changes.
C7_TimerCancelledBeforeNext ==
  /\ [](/\ Cardinality(tw.timers) <= 1
        /\ \A t \in tw.timers : t.id = tw.cleanup /\ t.text = tw.fullText
        /\ ~tw.alive => tw.timers = {})
  /\ [][ ~tw.alive => tw'.displayed = tw.displayed ]_vars

\* C7 witness: a change of fullText cancelled a running interval, and the
\* interval started for the new fullText has ticked.
C7_Witness ==
  /\ tw.alive
  /\ tw.cancelled >= 1
  /\ tw.timers # {}
  /\ tw.displayed # <<>>

\* C9: the displayed string of each mounted Assistant message is a prefix of
\* the message's current text; in a step that leaves the text of a message
\* unchanged its displayed length does not decrease, and in a step that
\* changes the text the display of a mounted message restarts from empty.
C9_RevealCursor ==
  /\ [](\A id \in DOMAIN reveal :
          reveal[id].alive => IsPrefix(reveal[id].displayed, TextOf(messages, id)))
  /\ [](mounted => DOMAIN reveal = AssistantIds(messages))
  /\ [][ \A id \in DOMAIN reveal :
           /\ id \in DOMAIN reveal'
           /\ IF TextOf(messages', id) = TextOf(messages, id)
              THEN Len(reveal'[id].displayed) >= Len(reveal[id].displayed)
              ELSE mounted => reveal'[id].displayed = <<>> ]_vars

\* C9 witness: the reveal of the first answer is half way while the second
\* answer, which arrived through another request, is revealed in full.
C9_Witness ==
  /\ mounted
  /\ Len(messages) = 4
  /\ messages[2].text = <<"h", "i">>
  /\ reveal[messages[2].id].displayed = <<"h">>
  /\ messages[4].text = FallbackText
  /\ reveal[messages[4].id].displayed = FallbackText

\* C8: after the page is torn down, no completion writes to messages or to
\* isTyping.
C8_NoWriteAfterTeardown ==
  [][ ~mounted => UNCHANGED <<messages, isTyping>> ]_vars

\* C10: once showChat is true it stays true with logoVisible false, and
\* nothing changes placeholderText or placeholderIndex any more; while
\* showChat is false, placeholderIndex is within 0..Len(fullPlaceholder) and
\* placeholderText is the prefix of that length.
C10_PlaceholderStopsOnChat ==
  /\ [][ showChat =>
           /\ showChat'
           /\ ~logoVisible'
           /\ UNCHANGED <<placeholderText, placeholderIndex>> ]_vars
  /\ [](~showChat =>
           /\ placeholderIndex \in 0..Len(fullPlaceholder)
           /\ placeholderText = Slice(fullPlaceholder, placeholderIndex))

===========================================================================
